---- MODULE Spec2Model ----
(***************************************************************************)
(* The client-side pipeline of ai-news-graph: src/pages/Home.tsx (manifest *)
(* fetch, file resolution, query, row decoding, node derivation, the three *)
(* presentations) and src/lib/duckdb.ts (getDuckConn, both revisions).     *)
(*                                                                         *)
(* Strings are sequences.  A URL string is a sequence of tokens: a scheme  *)
(* token ("http://"), a host token, "/" and path-segment names.  A title   *)
(* is a sequence of one-character strings.                                 *)
(***************************************************************************)
EXTENDS Integers, Sequences, FiniteSets, TLC

VARIABLES
  nodes,       \* useState nodes (Home.tsx:44)
  loading,     \* useState loading (Home.tsx:45)
  error,       \* useState error: NoError (null) or a message (Home.tsx:46)
  pc,          \* the await at which the effect's async function is suspended
  resp,        \* the manifest response held while its body is awaited
  files,       \* the resolved file list (Home.tsx:68)
  variant,     \* which revision of getDuckConn the build holds
  tried,       \* worker-spawn strategies getDuckConn has attempted
  stmts,       \* engine statements issued so far, in order
  fetchCount,  \* calls of fetch(MANIFEST_URL)
  bootCount,   \* calls of getDuckConn()
  queryCount,  \* projection queries issued
  rows,        \* the projection query's result rows
  thrown,      \* the exception caught at the top of the run, if any
  origin,      \* window.location.origin
  baseUrl,     \* import.meta.env.BASE_URL
  arg,         \* argument of the pure function under check
  ret          \* its successive results

vars == <<nodes, loading, error, pc, resp, files, variant, tried, stmts,
          fetchCount, bootCount, queryCount, rows, thrown, origin, baseUrl,
          arg, ret>>

pipeVars == <<nodes, loading, error, pc, resp, files, variant, tried, stmts,
              fetchCount, bootCount, queryCount, rows, thrown>>

(***************************************************************************)
(* Bounds of the model.                                                    *)
(***************************************************************************)
MaxSegs == 2
MaxWords == 2
MaxFiles == 2
MaxRows == 2
MaxApply == 2

Last(s) == s[Len(s)]

RECURSIVE Concat(_)
Concat(ss) == IF ss = <<>> THEN <<>> ELSE Head(ss) \o Concat(Tail(ss))

SeqsUpTo(S, n) == UNION {[1..k -> S] : k \in 0..n}

(***************************************************************************)
(* URL strings and the URL parser used by resolveFileUrl.                  *)
(***************************************************************************)
HttpSchemes == {"http://", "https://", "HTTP://", "HTTPS://"}
OtherSchemes == {"s3://"}
SchemeTokens == HttpSchemes \cup OtherSchemes

\* /^https?:\/\//i.test(u)
IsHttpAbsolute(u) == u # <<>> /\ Head(u) \in HttpSchemes

\* u.startsWith("/")
StartsWithSlash(u) == u # <<>> /\ Head(u) = "/"

\* the scheme as the URL serialiser writes it (lower case)
LowerScheme(s) ==
  CASE s = "HTTP://" -> "http://"
    [] s = "HTTPS://" -> "https://"
    [] OTHER -> s

\* p.split("/"): the segments of a path string, "" for an empty segment
RECURSIVE SplitSlash(_)
SplitSlash(p) ==
  IF p = <<>> THEN <<"">>
  ELSE IF Head(p) = "/" THEN <<"">> \o SplitSlash(Tail(p))
  ELSE IF Len(p) = 1 THEN <<p[1]>>
  ELSE <<p[1]>> \o SplitSlash(Tail(Tail(p)))

\* segments joined by "/"
RECURSIVE JoinSlash(_)
JoinSlash(segs) ==
  IF segs = <<>> THEN <<>>
  ELSE (IF Head(segs) = "" THEN <<>> ELSE <<Head(segs)>>)
       \o (IF Len(segs) = 1 THEN <<>> ELSE <<"/">> \o JoinSlash(Tail(segs)))

\* the URL parser's path state: "." and ".." segments are removed as they are read
RECURSIVE RemoveDots(_, _)
RemoveDots(acc, segs) ==
  IF segs = <<>> THEN acc
  ELSE LET s == Head(segs)
           isLast == Len(segs) = 1
           popped == IF acc = <<>> THEN acc ELSE SubSeq(acc, 1, Len(acc) - 1)
       IN  IF s = ".." THEN RemoveDots(IF isLast THEN Append(popped, "") ELSE popped, Tail(segs))
           ELSE IF s = "." THEN RemoveDots(IF isLast THEN Append(acc, "") ELSE acc, Tail(segs))
           ELSE RemoveDots(Append(acc, s), Tail(segs))

\* the path segments of an absolute URL string <<scheme, host, "/", ...>>
UrlPathSegs(url) ==
  IF Len(url) <= 2 THEN <<"">> ELSE SplitSlash(SubSeq(url, 4, Len(url)))

\* new URL(u, base).toString(), base an absolute URL string
NewURL(u, base) ==
  IF u # <<>> /\ Head(u) \in SchemeTokens
    THEN \* u carries its own scheme: the base is not used
         <<LowerScheme(u[1])>> \o (IF Len(u) >= 2 THEN <<u[2]>> ELSE <<>>) \o <<"/">>
           \o JoinSlash(RemoveDots(<<>>, UrlPathSegs(u)))
  ELSE IF StartsWithSlash(u)
    THEN \* path-absolute: the base's origin, u's path
         SubSeq(base, 1, 2) \o <<"/">>
           \o JoinSlash(RemoveDots(<<>>, SplitSlash(Tail(u))))
  ELSE IF u = <<>> THEN base
  ELSE \* relative: the base's path without its last segment, then u's segments
       LET bsegs == UrlPathSegs(base)
           dir == SubSeq(bsegs, 1, Len(bsegs) - 1)
       IN  SubSeq(base, 1, 2) \o <<"/">>
             \o JoinSlash(RemoveDots(dir, SplitSlash(u)))

\* a plausible slip: the relative branch returns the path without the origin
resolveFileUrl_NoOrigin(u, org, baseU) ==
  IF u = <<>> THEN u
  ELSE IF IsHttpAbsolute(u) THEN u
  ELSE IF StartsWithSlash(u) THEN org \o u
  ELSE baseU \o u

\* Home.tsx resolveFileUrl, under origin org and BASE_URL baseU
resolveFileUrl(u, org, baseU) ==
  IF u = <<>> THEN u
  ELSE IF IsHttpAbsolute(u) THEN u
  ELSE IF StartsWithSlash(u) THEN org \o u
  ELSE LET base == NewURL(baseU, org)
       IN  NewURL(u, base)

Origins == {<<"http://", "localhost:5173">>, <<"https://", "user.github.io">>}
BasePaths == {<<"/">>, <<"/", "ai-news-graph", "/">>}

Segments == {"a", "b", "..", ".", ""}
EntryPrefixes == {<<>>, <<"/">>, <<"http://", "cdn", "/">>, <<"HTTPS://", "cdn", "/">>,
                  <<"s3://", "bucket", "/">>}
Entries == {p \o JoinSlash(s) : p \in EntryPrefixes, s \in SeqsUpTo(Segments, MaxSegs)}

(***************************************************************************)
(* Titles and the topic heuristic.                                         *)
(***************************************************************************)
UpperChars == <<"A", "B", "C", "D", "E", "F", "G", "H", "I", "J", "K", "L", "M", "N", "O", "P", "Q", "R", "S", "T", "U", "V", "W", "X", "Y", "Z">>
LowerChars == <<"a", "b", "c", "d", "e", "f", "g", "h", "i", "j", "k", "l", "m", "n", "o", "p", "q", "r", "s", "t", "u", "v", "w", "x", "y", "z">>

\* one character of String.prototype.toLowerCase
LowerChar(c) ==
  IF \E i \in 1..Len(UpperChars) : UpperChars[i] = c
    THEN LowerChars[CHOOSE i \in 1..Len(UpperChars) : UpperChars[i] = c]
    ELSE c

\* title.toLowerCase()
toLowerCase(t) == [i \in 1..Len(t) |-> LowerChar(t[i])]

\* t.includes(w)
includes(t, w) ==
  \E i \in 0..(Len(t) - Len(w)) : \A j \in 1..Len(w) : t[i + j] = w[j]

Kw_policy == <<"p", "o", "l", "i", "c", "y">>
Kw_regulat == <<"r", "e", "g", "u", "l", "a", "t">>
Kw_agent == <<"a", "g", "e", "n", "t">>
Kw_robot == <<"r", "o", "b", "o", "t">>
Kw_safety == <<"s", "a", "f", "e", "t", "y">>
Kw_alignment == <<"a", "l", "i", "g", "n", "m", "e", "n", "t">>
Kw_chip == <<"c", "h", "i", "p">>
Kw_nvidia == <<"n", "v", "i", "d", "i", "a">>
Kw_openai == <<"o", "p", "e", "n", "a", "i">>
Kw_anthropic == <<"a", "n", "t", "h", "r", "o", "p", "i", "c">>
Kw_deepmind == <<"d", "e", "e", "p", "m", "i", "n", "d">>

\* a plausible slip: the safety test placed before the policy test
guessTopic_SafetyFirst(title) ==
  LET t == toLowerCase(title)
  IN  IF includes(t, Kw_safety) \/ includes(t, Kw_alignment) THEN "safety"
      ELSE IF includes(t, Kw_policy) \/ includes(t, Kw_regulat) THEN "policy"
      ELSE IF includes(t, Kw_agent) THEN "agents"
      ELSE IF includes(t, Kw_robot) THEN "robotics"
      ELSE IF includes(t, Kw_chip) \/ includes(t, Kw_nvidia) THEN "chips"
      ELSE IF includes(t, Kw_openai) \/ includes(t, Kw_anthropic) \/ includes(t, Kw_deepmind)
        THEN "frontier"
      ELSE "other"

\* Home.tsx guessTopic
guessTopic(title) ==
  LET t == toLowerCase(title)
  IN  IF includes(t, Kw_policy) \/ includes(t, Kw_regulat) THEN "policy"
      ELSE IF includes(t, Kw_agent) THEN "agents"
      ELSE IF includes(t, Kw_robot) THEN "robotics"
      ELSE IF includes(t, Kw_safety) \/ includes(t, Kw_alignment) THEN "safety"
      ELSE IF includes(t, Kw_chip) \/ includes(t, Kw_nvidia) THEN "chips"
      ELSE IF includes(t, Kw_openai) \/ includes(t, Kw_anthropic) \/ includes(t, Kw_deepmind)
        THEN "frontier"
      ELSE "other"

\* the pieces titles are built from: the keywords, capitalised forms, fillers,
\* and fragments that form a keyword only when joined
TitlePieces ==
  {<<"p", "o", "l", "i", "c", "y">>,
   <<"r", "e", "g", "u", "l", "a", "t">>,
   <<"a", "g", "e", "n", "t">>,
   <<"r", "o", "b", "o", "t">>,
   <<"s", "a", "f", "e", "t", "y">>,
   <<"a", "l", "i", "g", "n", "m", "e", "n", "t">>,
   <<"c", "h", "i", "p">>,
   <<"n", "v", "i", "d", "i", "a">>,
   <<"o", "p", "e", "n", "a", "i">>,
   <<"a", "n", "t", "h", "r", "o", "p", "i", "c">>,
   <<"d", "e", "e", "p", "m", "i", "n", "d">>,
   <<"S", "a", "f", "e", "t", "y">>,
   <<"R", "E", "G", "U", "L", "A", "T">>,
   <<"O", "p", "e", "n", "A", "I">>,
   <<"N", "v", "i", "d", "i", "a">>,
   <<" ">>,
   <<"n", "e", "w">>,
   <<"a", "g">>,
   <<"e", "n", "t">>,
   <<"p", "o", "l", "i", "c">>,
   <<"x">>}
Titles == {Concat(ws) : ws \in SeqsUpTo(TitlePieces, MaxWords)}


(***************************************************************************)
(* Column values, the row decoder and the node deriver (Home.tsx:113-146). *)
(***************************************************************************)
MsPerHour == 3600000
DecayHours == 6
MaxVal == 10
MinVal == 1
MissingAgeHours == 999
WindowDays == 7

\* Date.now(): ten days after the model's epoch
Now == 10 * 24 * MsPerHour

\* A JavaScript value of a result column.  t is its typeof ("null" for null);
\* a number or bigint is n when k = "fin", and otherwise NaN ("nan"), an infinity
\* ("inf") or a finite value beyond the Date range of +-8.64e15 ms ("huge");
\* a string is s; an object converts to the string s, or throws when k = "throws".
Raw(t, k, n, s) == [t |-> t, k |-> k, n |-> n, s |-> s]
RawNull == Raw("null", "fin", 0, <<>>)
RawUndefined == Raw("undefined", "fin", 0, <<>>)
RawString(s) == Raw("string", "fin", 0, s)
RawNumber(n) == Raw("number", "fin", n, <<>>)
RawNaN == Raw("number", "nan", 0, <<>>)
RawInfinity == Raw("number", "inf", 0, <<>>)
RawBigInt(n) == Raw("bigint", "fin", n, <<>>)
RawHugeBigInt == Raw("bigint", "huge", 0, <<>>)
RawHugeNumber == Raw("number", "huge", 0, <<>>)
RawBoolean(b) == Raw("boolean", "fin", IF b THEN 1 ELSE 0, <<>>)
RawObject(s) == Raw("object", "fin", 0, s)
RawThrowingObject == Raw("object", "throws", 0, <<>>)

DigitChars == <<"0", "1", "2", "3", "4", "5", "6", "7", "8", "9">>
IsDigit(c) == \E i \in 1..Len(DigitChars) : DigitChars[i] = c
DigitVal(c) == (CHOOSE i \in 1..Len(DigitChars) : DigitChars[i] = c) - 1

\* the decimal digits of a non-negative integer
RECURSIVE Digits(_)
Digits(n) == IF n < 10 THEN <<DigitChars[n + 1]>> ELSE Append(Digits(n \div 10), DigitChars[(n % 10) + 1])

\* the value of a string of decimal digits
RECURSIVE DigitsValue(_)
DigitsValue(s) == IF s = <<>> THEN 0 ELSE 10 * DigitsValue(SubSeq(s, 1, Len(s) - 1)) + DigitVal(Last(s))

\* String(v) for a value that is neither a string nor null/undefined
StringOf(v) ==
  CASE v.t = "number" /\ v.k = "nan" -> <<"N", "a", "N">>
    [] v.t = "number" /\ v.k = "inf" -> <<"I", "n", "f", "i", "n", "i", "t", "y">>
    [] v.t \in {"number", "bigint"} /\ v.k = "huge" -> <<"9", "e", "1", "5">>
    [] v.t \in {"number", "bigint"} /\ v.k = "fin" ->
         IF v.n < 0 THEN <<"-">> \o Digits(0 - v.n) ELSE Digits(v.n)
    [] v.t = "boolean" -> IF v.n = 1 THEN <<"t", "r", "u", "e">> ELSE <<"f", "a", "l", "s", "e">>
    [] OTHER -> v.s

\* a plausible slip: the null test left out, so null and undefined are
\* string-converted like any other value
asString_NoNullTest(v) ==
  IF v.t = "string" THEN v.s
  ELSE IF v.t = "null" THEN <<"n", "u", "l", "l">>
  ELSE IF v.t = "undefined" THEN <<"u", "n", "d", "e", "f", "i", "n", "e", "d">>
  ELSE IF v.k = "throws" THEN <<>>
  ELSE StringOf(v)

\* Home.tsx asString
asString(v) ==
  IF v.t = "string" THEN v.s
  ELSE IF v.t \in {"null", "undefined"} THEN <<>>
  ELSE IF v.k = "throws" THEN <<>>   \* String(v) threw: caught
  ELSE StringOf(v)

\* a JavaScript number: k as above
Num(k, n) == [k |-> k, n |-> n]

\* Number(v) for a value that is not null/undefined
NumberOf(v) ==
  CASE v.t \in {"number", "bigint"} -> Num(v.k, v.n)
    [] v.t = "boolean" -> Num("fin", v.n)
    [] v.t = "string" ->
         IF \A i \in 1..Len(v.s) : IsDigit(v.s[i]) THEN Num("fin", DigitsValue(v.s))
         ELSE Num("nan", 0)
    [] OTHER -> Num("nan", 0)

\* Number.isFinite
IsFinite(x) == x.k \in {"fin", "huge"}

\* an optional value: null, or v
None == [isNull |-> TRUE]
Some(v) == [isNull |-> FALSE, v |-> v]

\* Home.tsx:122-130: the timestamp column as a number, or null
msNumOf(p) ==
  IF p.t = "number" THEN Some(Num(p.k, p.n))
  ELSE IF p.t = "bigint" THEN Some(Num(p.k, p.n))
  ELSE IF p.t \notin {"null", "undefined"}
    THEN LET n == NumberOf(p) IN IF IsFinite(n) THEN Some(n) ELSE None
  ELSE None

\* new Date(x): a Date object whose time value is x, or NaN (an Invalid Date)
\* when x is not a finite number within the Date range
NewDate(x) == IF x.k = "fin" THEN [valid |-> TRUE, time |-> x.n] ELSE [valid |-> FALSE, time |-> 0]

\* Home.tsx:132  date = typeof msNum === "number" ? new Date(msNum) : null
dateOf(msNum) == IF msNum.isNull THEN None ELSE Some(NewDate(msNum.v))

\* A fraction num/den (den > 0), or NaN.
Frac(num, den) == [nan |-> FALSE, num |-> num, den |-> den]
FracNaN == [nan |-> TRUE, num |-> 0, den |-> 1]
Max(a, b) == IF a >= b THEN a ELSE b

\* Home.tsx:133  ageHours = date ? (now - date.getTime()) / 36e5 : 999
ageHoursOf(date, now) ==
  IF date.isNull THEN Frac(MissingAgeHours, 1)
  ELSE IF ~date.v.valid THEN FracNaN
  ELSE Frac(now - date.v.time, MsPerHour)

\* a plausible slip: the floor of 1 left out
valOf_NoFloor(ageHours) ==
  IF ageHours.nan THEN FracNaN
  ELSE Frac(MaxVal * DecayHours * ageHours.den - ageHours.num, DecayHours * ageHours.den)

\* Home.tsx:134  val = Math.max(1, 10 - ageHours / 6); Math.max(1, NaN) is NaN
valOf(ageHours) ==
  IF ageHours.nan THEN FracNaN
  ELSE Frac(Max(MinVal * DecayHours * ageHours.den,
                MaxVal * DecayHours * ageHours.den - ageHours.num),
            DecayHours * ageHours.den)

\* date.toISOString() of a valid date: the ISO-8601 text of its time value
ISOString(ms) == <<"ISO", ms>>

Ok(v) == [ok |-> TRUE, v |-> v]
Err(step, message) == [step |-> step, message |-> message]
Throw(e) == [ok |-> FALSE, e |-> e]
NoThrow == Err("none", "")

Row(id, url, title, published_ms, domain, language) ==
  [id |-> id, url |-> url, title |-> title, published_ms |-> published_ms,
   domain |-> domain, language |-> language]

\* Home.tsx:114-145: one row to one node; toISOString of an Invalid Date throws
decodeRow(r, now) ==
  LET idStr == asString(r.id)
      urlStr == asString(r.url)
      titleStr == asString(r.title)
      domainStr == IF r.domain.t \in {"null", "undefined"} THEN None ELSE Some(asString(r.domain))
      langStr == IF r.language.t \in {"null", "undefined"} THEN None ELSE Some(asString(r.language))
      msNum == msNumOf(r.published_ms)
      date == dateOf(msNum)
      ageHours == ageHoursOf(date, now)
      val == valOf(ageHours)
  IN  IF ~date.isNull /\ ~date.v.valid
        THEN Throw(Err("decode", "Invalid time value"))
        ELSE Ok([id |-> idStr,
                 url |-> urlStr,
                 title |-> IF titleStr = <<>> THEN None ELSE Some(titleStr),
                 published_at |-> IF date.isNull THEN None ELSE Some(ISOString(date.v.time)),
                 domain |-> domainStr,
                 language |-> langStr,
                 topic |-> guessTopic(titleStr),
                 val |-> val])

\* rows.map(decode): the nodes in row order, or the first exception raised
RECURSIVE mapRows(_, _, _)
mapRows(rs, now, acc) ==
  IF rs = <<>> THEN Ok(acc)
  ELSE LET d == decodeRow(Head(rs), now)
       IN  IF d.ok THEN mapRows(Tail(rs), now, Append(acc, d.v)) ELSE d


(***************************************************************************)
(* The inputs of a run: the manifest response, the engine's answers.       *)
(***************************************************************************)
JsonType == <<"application/json">>

\* resp.headers.get("content-type") || "": the header's value, "" when absent
ContentTypes ==
  {<<>>, JsonType, <<"application/json", "; charset=utf-8">>, <<"text/html">>,
   <<"text/html", "; charset=utf-8">>, <<"application/octet-stream">>}

\* the manifest entries a run's manifest lists
ManifestEntries == {<<"a">>, <<"/", "a">>, <<"http://", "cdn", "/", "a">>}

\* What resp.json() yields.  kind "invalid": the body is not JSON (the promise
\* rejects); otherwise the JSON value's type.  For an object, fk is the type of
\* its files field ("absent" when it has none) and fv the array it holds.
Body(kind, fk, fv) == [kind |-> kind, fk |-> fk, fv |-> fv]
Bodies ==
  {Body(k, "absent", <<>>) : k \in {"invalid", "null", "number", "string", "boolean", "array"}}
  \cup {Body("object", fk, <<>>) : fk \in {"absent", "null", "string", "number", "object"}}
  \cup {Body("object", "array", fv) : fv \in SeqsUpTo(ManifestEntries, MaxFiles)}

Responses == [ok : BOOLEAN, ct : ContentTypes, body : Bodies]
\* before fetch has resolved there is no response
NoResponse == [ok |-> FALSE, ct |-> <<>>, body |-> Body("none", "absent", <<>>)]

\* what duckdb.selectBundle resolves to: whether the bundle names a worker script
\* and a module
Bundles == [mainWorker : BOOLEAN, mainModule : BOOLEAN]

T_agent == Kw_agent
T_safetyRegulation == Kw_safety \o <<" ">> \o Kw_regulat \o <<"i", "o", "n">>

\* the timestamp column of a result row
PublishedValues ==
  {RawNumber(Now), RawBigInt(Now - DecayHours * MsPerHour),
   RawBigInt(Now - WindowDays * 24 * MsPerHour), RawNumber(Now + DecayHours * MsPerHour),
   RawNull, RawHugeBigInt, RawNaN, RawString(<<"x">>)}

\* the result rows of the projection query
ResultRows ==
  {Row(RawString(<<"1">>), RawString(<<"http://", "cdn", "/", "a">>),
       IF p.t = "bigint" THEN RawString(T_safetyRegulation)
       ELSE IF p.t = "number" THEN RawString(T_agent) ELSE RawNull,
       p, RawString(<<"cdn">>), RawNull) : p \in PublishedValues}

NoError == "null"

\* {error && ...}: a non-empty message is truthy
Truthy(e) == e # NoError /\ e # ""

(***************************************************************************)
(* Home: what the render shows (Home.tsx:164-179).                         *)
(***************************************************************************)
ShowLoading == loading
ShowError == Truthy(error)
ShowNoData == ~loading /\ ~Truthy(error) /\ Len(nodes) = 0
ShowGraph == Len(nodes) > 0

(***************************************************************************)
(* One run of the effect (Home.tsx:48-155).  Each action is one synchronous *)
(* stretch of the async function, from one await's settling to the next     *)
(* await; the state updates of a stretch are committed together.           *)
(***************************************************************************)

\* a plausible slip: loading is not cleared when the run fails (no finally)
Catch_NoFinally(e) ==
  /\ error' = e.message
  /\ pc' = "done"
  /\ thrown' = e
  /\ UNCHANGED loading

\* a plausible slip: a failed run starts over
Catch_Retry(e) ==
  /\ error' = e.message
  /\ loading' = FALSE
  /\ pc' = "mount"
  /\ thrown' = e

\* catch (e) { setError(...) } finally { setLoading(false) }
Catch(e) ==
  /\ error' = e.message
  /\ loading' = FALSE
  /\ pc' = "done"
  /\ thrown' = e

\* the effect starts: setLoading(true); setError(null); fetch(MANIFEST_URL)
Mount ==
  /\ pc = "mount"
  /\ loading' = TRUE
  /\ error' = NoError
  /\ fetchCount' = fetchCount + 1
  /\ pc' = "awaitFetch"
  /\ UNCHANGED <<nodes, resp, files, variant, tried, stmts, bootCount, queryCount,
                 rows, thrown, origin, baseUrl, arg, ret>>

\* fetch rejects (a network failure)
FetchRejects ==
  /\ pc = "awaitFetch"
  /\ Catch(Err("fetch", "Failed to fetch"))
  /\ UNCHANGED <<nodes, resp, files, variant, tried, stmts, fetchCount, bootCount,
                 queryCount, rows, origin, baseUrl, arg, ret>>

\* a plausible slip: only the status is tested, not the content type
ManifestRejected_StatusOnly(r) == ~r.ok

\* Home.tsx:56-57
ManifestRejected(r) == ~r.ok \/ ~includes(r.ct, JsonType)

\* fetch resolves: the response is tested, then its body is read as text
\* (rejected) or as JSON (accepted)
FetchResolves ==
  /\ pc = "awaitFetch"
  /\ \E r \in Responses :
       /\ resp' = r
       /\ pc' = IF ManifestRejected(r) THEN "awaitText" ELSE "awaitJson"
  /\ UNCHANGED <<nodes, loading, error, files, variant, tried, stmts, fetchCount,
                 bootCount, queryCount, rows, thrown, origin, baseUrl, arg, ret>>

\* resp.text().catch(() => "") settles; the run throws "Manifest is not JSON ..."
TextSettles ==
  /\ pc = "awaitText"
  /\ Catch(Err("manifest", "Manifest is not JSON"))
  /\ UNCHANGED <<nodes, resp, files, variant, tried, stmts, fetchCount, bootCount,
                 queryCount, rows, origin, baseUrl, arg, ret>>

\* Home.tsx:67  Array.isArray(manifest.files) ? manifest.files : []
\* (reading .files of null throws a TypeError)
rawFilesOf(b) ==
  IF b.kind = "null"
    THEN Throw(Err("manifest", "Cannot read properties of null (reading 'files')"))
  ELSE IF b.kind = "object" /\ b.fk = "array" THEN Ok(b.fv)
  ELSE Ok(<<>>)

\* a plausible slip: the empty-list test left out
noFiles_Never(fs) == FALSE

\* Home.tsx:71  !files.length
noFiles(fs) == Len(fs) = 0

\* rawFiles.map(resolveFileUrl)
resolveAll(raw, org, baseU) == [i \in 1..Len(raw) |-> resolveFileUrl(raw[i], org, baseU)]

\* resp.json() settles.  Rejected: the run fails.  Resolved: the file list is
\* resolved; empty, the run ends with setNodes([]); otherwise getDuckConn() is
\* called and awaits selectBundle.
JsonSettles ==
  /\ pc = "awaitJson"
  /\ LET b == resp.body
         raw == rawFilesOf(b)
         fs == resolveAll(raw.v, origin, baseUrl)
     IN  IF b.kind = "invalid"
           THEN /\ Catch(Err("manifest", "Unexpected token < in JSON"))
                /\ UNCHANGED <<nodes, files, bootCount>>
         ELSE IF ~raw.ok
           THEN /\ Catch(raw.e)
                /\ UNCHANGED <<nodes, files, bootCount>>
         ELSE IF noFiles(fs)
           THEN /\ files' = fs
                /\ nodes' = <<>>
                /\ loading' = FALSE
                /\ pc' = "done"
                /\ UNCHANGED <<error, thrown, bootCount>>
         ELSE /\ files' = fs
              /\ bootCount' = bootCount + 1
              /\ pc' = "awaitBundle"
              /\ UNCHANGED <<nodes, loading, error, thrown>>
  /\ UNCHANGED <<resp, variant, tried, stmts, fetchCount, queryCount, rows,
                 origin, baseUrl, arg, ret>>


(***************************************************************************)
(* getDuckConn (src/lib/duckdb.ts).  Two revisions are in the source: the  *)
(* one that spawns the worker directly from its script location ("direct") *)
(* and the one that fetches the script and spawns it from a same-origin    *)
(* blob ("blob").  A build holds one of them.                              *)
(***************************************************************************)
Variants == {"direct", "blob"}
Strategies == {"direct", "blob"}

SetupStmt == "INSTALL httpfs; LOAD httpfs; SET enable_http_metadata_cache=true;"
TimeZoneStmt == "SET TimeZone='UTC';"
ViewStmt == "CREATE OR REPLACE VIEW articles"
ProjectionStmt == "SELECT ... WHERE ts >= NOW() - INTERVAL '7' DAY"

\* selectBundle settles: no bundle, or the revision's one spawn strategy starts.
\* direct: new Worker(...), classic or module by the script location's prefix,
\* either throws (a cross-origin script) or yields the worker, and db.instantiate
\* is awaited.
\* blob: fetch(bundle.mainWorker) is awaited.
BundleSettles ==
  /\ pc = "awaitBundle"
  /\ \E b \in Bundles :
       IF ~b.mainWorker \/ ~b.mainModule
         THEN /\ Catch(Err("bundle", "No suitable DuckDB-WASM bundle found for this browser."))
              /\ UNCHANGED tried
       ELSE IF variant = "direct"
         THEN /\ tried' = tried \cup {"direct"}
              /\ \E spawned \in BOOLEAN :
                   IF spawned
                     THEN /\ pc' = "awaitInstantiate"
                          /\ UNCHANGED <<loading, error, thrown>>
                     ELSE Catch(Err("spawn", "Failed to construct 'Worker'"))
       ELSE /\ tried' = tried \cup {"blob"}
            /\ pc' = "awaitWorkerFetch"
            /\ UNCHANGED <<loading, error, thrown>>
  /\ UNCHANGED <<nodes, resp, files, variant, stmts, fetchCount, bootCount, queryCount,
                 rows, origin, baseUrl, arg, ret>>

\* blob revision: the fetch of the worker script settles: rejected, not ok, or
\* its text is wrapped in a Blob and the worker is spawned from the blob URL
WorkerFetchSettles ==
  /\ pc = "awaitWorkerFetch"
  /\ \E outcome \in {"rejected", "notOk", "spawnFailed", "spawned"} :
       CASE outcome = "rejected" -> Catch(Err("spawn", "Failed to fetch"))
         [] outcome = "notOk" -> Catch(Err("spawn", "Failed to fetch DuckDB worker: 404"))
         [] outcome = "spawnFailed" -> Catch(Err("spawn", "Failed to construct 'Worker'"))
         [] outcome = "spawned" ->
              /\ pc' = "awaitInstantiate"
              /\ UNCHANGED <<loading, error, thrown>>
  /\ UNCHANGED <<nodes, resp, files, variant, tried, stmts, fetchCount, bootCount,
                 queryCount, rows, origin, baseUrl, arg, ret>>

\* db.instantiate settles; on success db.connect() is awaited
InstantiateSettles ==
  /\ pc = "awaitInstantiate"
  /\ \E ok \in BOOLEAN :
       IF ok
         THEN /\ pc' = "awaitConnect"
              /\ UNCHANGED <<loading, error, thrown>>
         ELSE Catch(Err("instantiate", "WebAssembly.instantiate failed"))
  /\ UNCHANGED <<nodes, resp, files, variant, tried, stmts, fetchCount, bootCount,
                 queryCount, rows, origin, baseUrl, arg, ret>>

\* db.connect settles; on success the setup statement is issued on the connection
ConnectSettles ==
  /\ pc = "awaitConnect"
  /\ \E ok \in BOOLEAN :
       IF ok
         THEN /\ stmts' = Append(stmts, SetupStmt)
              /\ pc' = "awaitSetup"
              /\ UNCHANGED <<loading, error, thrown>>
         ELSE /\ Catch(Err("connect", "connect failed"))
              /\ UNCHANGED stmts
  /\ UNCHANGED <<nodes, resp, files, variant, tried, fetchCount, bootCount,
                 queryCount, rows, origin, baseUrl, arg, ret>>

\* a statement settles: it failed and the run fails, or the next one is issued
StatementSettles(at, step, next, nextPc) ==
  /\ pc = at
  /\ \E ok \in BOOLEAN :
       IF ok
         THEN /\ stmts' = Append(stmts, next)
              /\ pc' = nextPc
              /\ queryCount' = IF next = ProjectionStmt THEN queryCount + 1 ELSE queryCount
              /\ UNCHANGED <<loading, error, thrown>>
         ELSE /\ Catch(Err(step, "engine error"))
              /\ UNCHANGED <<stmts, queryCount>>
  /\ UNCHANGED <<nodes, resp, files, variant, tried, fetchCount, bootCount,
                 rows, origin, baseUrl, arg, ret>>

\* a plausible slip: the time zone is not set before the view is registered
SetupSettles_SkipTimeZone == StatementSettles("awaitSetup", "setup", ViewStmt, "awaitView")

\* the setup statement settles: getDuckConn returns and SET TimeZone is issued
SetupSettles == StatementSettles("awaitSetup", "setup", TimeZoneStmt, "awaitTz")

\* SET TimeZone settles: the view is registered
TimeZoneSettles == StatementSettles("awaitTz", "timezone", ViewStmt, "awaitView")

\* CREATE OR REPLACE VIEW settles: the projection query is issued
ViewSettles == StatementSettles("awaitView", "view", ProjectionStmt, "awaitQuery")

\* the projection query settles: it failed, or its rows are decoded into nodes
\* (setNodes(out)) unless decoding a row throws
QuerySettles ==
  /\ pc = "awaitQuery"
  /\ \/ /\ Catch(Err("query", "engine error"))
        /\ UNCHANGED <<nodes, rows>>
     \/ \E rs \in SeqsUpTo(ResultRows, MaxRows) :
          LET out == mapRows(rs, Now, <<>>)
          IN  /\ rows' = rs
              /\ IF out.ok
                   THEN /\ nodes' = out.v
                        /\ loading' = FALSE
                        /\ pc' = "done"
                        /\ UNCHANGED <<error, thrown>>
                   ELSE /\ Catch(out.e)
                        /\ UNCHANGED nodes
  /\ UNCHANGED <<resp, files, variant, tried, stmts, fetchCount, bootCount,
                 queryCount, origin, baseUrl, arg, ret>>

Init ==
  /\ nodes = <<>>
  /\ loading = TRUE
  /\ error = NoError
  /\ pc = "mount"
  /\ resp = NoResponse
  /\ files = <<>>
  /\ variant \in Variants
  /\ tried = {}
  /\ stmts = <<>>
  /\ fetchCount = 0
  /\ bootCount = 0
  /\ queryCount = 0
  /\ rows = <<>>
  /\ thrown = NoThrow
  /\ origin \in Origins
  /\ baseUrl \in BasePaths
  /\ arg = <<>>
  /\ ret = <<>>

Next ==
  \/ Mount
  \/ FetchRejects
  \/ FetchResolves
  \/ TextSettles
  \/ JsonSettles
  \/ BundleSettles
  \/ WorkerFetchSettles
  \/ InstantiateSettles
  \/ ConnectSettles
  \/ SetupSettles
  \/ TimeZoneSettles
  \/ ViewSettles
  \/ QuerySettles

Spec == Init /\ [][Next]_vars


(***************************************************************************)
(* resolveFileUrl applied, and applied again to its own result.            *)
(***************************************************************************)
IdlePipeline ==
  /\ nodes = <<>>
  /\ loading = TRUE
  /\ error = NoError
  /\ pc = "mount"
  /\ resp = NoResponse
  /\ files = <<>>
  /\ variant = "blob"
  /\ tried = {}
  /\ stmts = <<>>
  /\ fetchCount = 0
  /\ bootCount = 0
  /\ queryCount = 0
  /\ rows = <<>>
  /\ thrown = NoThrow

InitResolve ==
  /\ IdlePipeline
  /\ origin \in Origins
  /\ baseUrl \in BasePaths
  /\ arg \in Entries
  /\ ret = <<>>

ApplyResolve ==
  /\ Len(ret) < MaxApply
  /\ ret' = Append(ret, resolveFileUrl(IF ret = <<>> THEN arg ELSE Last(ret), origin, baseUrl))
  /\ UNCHANGED <<pipeVars, origin, baseUrl, arg>>

SpecResolve == InitResolve /\ [][ApplyResolve]_vars

(***************************************************************************)
(* The topic of a title column value (Home.tsx:118, 143).                  *)
(***************************************************************************)
RawTitles == {RawString(t) : t \in Titles} \cup {RawNull, RawUndefined}

InitTopic ==
  /\ IdlePipeline
  /\ origin \in Origins
  /\ baseUrl = <<"/">>
  /\ arg \in RawTitles
  /\ ret = <<>>

ClassifyTitle ==
  /\ ret = <<>>
  /\ ret' = <<guessTopic(asString(arg))>>
  /\ UNCHANGED <<pipeVars, origin, baseUrl, arg>>

SpecTopic == InitTopic /\ [][ClassifyTitle]_vars

(***************************************************************************)
(* One raw row decoded (Home.tsx:114-145), over every kind of column value. *)
(***************************************************************************)
\* what the id, url and title columns may hold
ColumnValues ==
  {RawString(<<>>), RawString(<<"a">>), RawString(Kw_robot), RawNull, RawUndefined,
   RawNumber(42), RawNumber(0), RawNaN, RawBigInt(7), RawBoolean(TRUE),
   RawObject(<<"o", "b", "j">>), RawThrowingObject}

\* what the timestamp column may hold
TimestampValues == {RawBigInt(Now), RawNumber(Now - MsPerHour), RawNull, RawNaN, RawHugeBigInt}

DecodeRows ==
  {Row(i, u, t, p, RawString(<<"c", "d", "n">>), RawNull) :
     i \in ColumnValues, u \in ColumnValues, t \in ColumnValues, p \in TimestampValues}

InitDecode ==
  /\ IdlePipeline
  /\ origin = <<"http://", "localhost:5173">>
  /\ baseUrl = <<"/">>
  /\ arg \in DecodeRows
  /\ ret = <<>>

DecodeOne ==
  /\ ret = <<>>
  /\ ret' = <<decodeRow(arg, Now)>>
  /\ UNCHANGED <<pipeVars, origin, baseUrl, arg>>

SpecDecode == InitDecode /\ [][DecodeOne]_vars


(***************************************************************************)
(* Properties.                                                             *)
(***************************************************************************)
Responded == resp # NoResponse
Range(f) == {f[i] : i \in DOMAIN f}

\* C1: in every state of the page exactly one of the three presentations is
\* shown: loading (loading = true), errored (error != null), or loaded
\* (loading = false and error = null: the 'no data' message when nodes is empty,
\* the graph when it is not); the loading indicator, the error message and the
\* graph/no-data view are never shown together.
C1_ExactlyOnePresentation ==
  LET loaded == ~loading /\ error = NoError
  IN  /\ Cardinality({p \in {"loading", "errored", "loaded"} :
                        \/ p = "loading" /\ ShowLoading
                        \/ p = "errored" /\ ShowError
                        \/ p = "loaded" /\ (ShowNoData \/ ShowGraph)}) = 1
      /\ ShowLoading <=> loading
      /\ ShowError <=> error # NoError
      /\ (ShowNoData \/ ShowGraph) <=> loaded
      /\ ShowNoData <=> (loaded /\ nodes = <<>>)
      /\ ShowGraph <=> (loaded /\ nodes # <<>>)

\* C1 witness: a finished run that shows the graph, and nothing else
C1_Witness == pc = "done" /\ ShowGraph /\ ~ShowLoading /\ ~ShowError

\* C2: once a step of the run has failed, the run is over in the errored state:
\* error is the failure's message, loading is false, the node list is as it was
\* (empty), and the manifest fetch, the bootstrap and the projection query have
\* each been performed at most once.
C2_FailureEndsRun ==
  /\ fetchCount <= 1 /\ bootCount <= 1 /\ queryCount <= 1
  /\ thrown # NoThrow =>
       /\ pc = "done"
       /\ error = thrown.message
       /\ ~loading
       /\ nodes = <<>>
       /\ ShowError /\ ~ShowLoading /\ ~ShowGraph /\ ~ShowNoData

\* C2 witness: the view registration failed after the manifest fetch and the
\* bootstrap had each run once
C2_Witness ==
  /\ thrown.step = "view" /\ pc = "done" /\ error = "engine error"
  /\ fetchCount = 1 /\ bootCount = 1 /\ queryCount = 0

\* a timestamp column value that denotes no representable instant
Unrepresentable(p) ==
  \/ p.t \in {"null", "undefined"}
  \/ p.t \in {"number", "bigint"} /\ p.k # "fin"
  \/ p.t = "string" /\ \E i \in 1..Len(p.s) : ~IsDigit(p.s[i])

\* C3: the row decoder is total: whatever the timestamp column holds, a run
\* whose query returned rows does not end errored, every row yields a node, and
\* a row whose timestamp is unrepresentable yields published_at = null, val = 1.
C3_DecoderTotal ==
  (pc = "done" /\ rows # <<>>) =>
     /\ error = NoError
     /\ Len(nodes) = Len(rows)
     /\ \A i \in 1..Len(rows) :
          Unrepresentable(rows[i].published_ms) =>
            /\ nodes[i].published_at.isNull
            /\ ~nodes[i].val.nan /\ nodes[i].val.num = nodes[i].val.den

\* C4: getDuckConn reports a worker-spawn failure only after both strategies,
\* the direct spawn and the same-origin blob, have been attempted.
C4_BothStrategiesTried ==
  thrown.step = "spawn" => tried = Strategies

\* C5: while the resolved file list is empty the engine is never invoked:
\* getDuckConn is not called and no statement is issued.
C5_EmptyFilesNoEngine ==
  Len(files) = 0 =>
     /\ bootCount = 0 /\ queryCount = 0
     /\ stmts = <<>> /\ tried = {}
     /\ pc \in {"mount", "awaitFetch", "awaitText", "awaitJson", "done"}

\* C5 witness: a run over a manifest with an empty files array, finished
C5_Witness ==
  /\ pc = "done" /\ thrown = NoThrow
  /\ resp.body.kind = "object" /\ resp.body.fk = "array" /\ resp.body.fv = <<>>
  /\ files = <<>> /\ bootCount = 0

\* C6: a run whose manifest was fetched as JSON and whose body has no files
\* field, or one that is not a sequence, ends loaded with zero nodes ('no
\* data'), never errored.
C6_NoFilesIsNoData ==
  (/\ pc = "done"
   /\ Responded /\ resp.ok /\ JsonType[1] \in Range(resp.ct)
   /\ resp.body.kind # "invalid"
   /\ ~(resp.body.kind = "object" /\ resp.body.fk = "array")) =>
     /\ files = <<>>
     /\ error = NoError /\ ~loading /\ nodes = <<>>
     /\ ShowNoData

\* C7: a manifest response that is not successful, or whose content type does
\* not include application/json, fails the run before the body is read as JSON
\* and before the engine is bootstrapped, and the run ends errored; a successful
\* response that declares JSON is never rejected by this test.
C7_ManifestCheck ==
  Responded =>
    IF ~resp.ok \/ JsonType[1] \notin Range(resp.ct)
      THEN /\ pc \in {"awaitText", "done"}
           /\ bootCount = 0 /\ stmts = <<>>
           /\ pc = "done" => (ShowError /\ ~loading /\ error = "Manifest is not JSON")
      ELSE /\ pc # "awaitText"
           /\ error # "Manifest is not JSON"

\* C7 witness: a successful response served as text/html, the run ended errored
C7_Witness ==
  /\ Responded /\ resp.ok /\ resp.ct = <<"text/html">>
  /\ pc = "done" /\ error = "Manifest is not JSON"

\* an entry that is a relative path: no scheme, no leading slash, not empty
IsRelativePath(u) == u # <<>> /\ Head(u) \notin SchemeTokens /\ Head(u) # "/"
HasDotSegment(u) == \E i \in 1..Len(u) : u[i] \in {".", ".."}

\* C8: resolveFileUrl is idempotent under a fixed origin and base path; an
\* absolute http(s) location is returned unchanged, a root-relative path
\* resolves to origin + path, any other relative path resolves against
\* origin + base path.
C8_ResolveIdempotent ==
  /\ \A i \in 1..Len(ret) : ret[i] = ret[1]
  /\ Len(ret) >= 1 =>
       /\ IsHttpAbsolute(arg) => ret[1] = arg
       /\ StartsWithSlash(arg) => ret[1] = origin \o arg
       /\ IsRelativePath(arg) =>
            /\ SubSeq(ret[1], 1, Len(origin)) = origin
            /\ ~HasDotSegment(arg) => ret[1] = origin \o baseUrl \o arg

\* C8 witness: a relative entry resolved twice under a non-root base path
C8_Witness ==
  /\ Len(ret) = 2 /\ arg = <<"a", "/", "b">> /\ baseUrl = <<"/", "ai-news-graph", "/">>
  /\ ret[2] = origin \o <<"/", "ai-news-graph", "/", "a", "/", "b">>

\* the topics in priority order, each with its keywords
TopicRules ==
  << [topic |-> "policy",   keywords |-> {Kw_policy, Kw_regulat}],
     [topic |-> "agents",   keywords |-> {Kw_agent}],
     [topic |-> "robotics", keywords |-> {Kw_robot}],
     [topic |-> "safety",   keywords |-> {Kw_safety, Kw_alignment}],
     [topic |-> "chips",    keywords |-> {Kw_chip, Kw_nvidia}],
     [topic |-> "frontier", keywords |-> {Kw_openai, Kw_anthropic, Kw_deepmind}] >>

\* keyword w occurs in title t, case-insensitively
Occurs(w, t) ==
  \E i \in 1..Len(t) :
    /\ i + Len(w) - 1 <= Len(t)
    /\ \A j \in 1..Len(w) : LowerChar(t[i + j - 1]) = w[j]

RuleMatches(i, t) == \E w \in TopicRules[i].keywords : Occurs(w, t)

\* the topic of the first rule, in priority order, that matches; else 'other'
FirstMatch(t) ==
  IF \E i \in 1..Len(TopicRules) : RuleMatches(i, t)
    THEN TopicRules[CHOOSE i \in 1..Len(TopicRules) :
                      RuleMatches(i, t) /\ \A j \in 1..(i - 1) : ~RuleMatches(j, t)].topic
    ELSE "other"

\* C9: topic classification is first-match-wins in the order policy, agents,
\* robotics, safety, chips, frontier, case-insensitively; a null or empty title
\* is 'other'; a title with a regulation term and a safety term is policy.
C9_FirstMatchWins ==
  ret # <<>> =>
    LET t == IF arg.t = "string" THEN arg.s ELSE <<>>
    IN  /\ ret[1] = FirstMatch(t)
        /\ t = <<>> => ret[1] = "other"
        /\ (Occurs(Kw_regulat, t) /\ Occurs(Kw_safety, t)) => ret[1] = "policy"

\* C9 witness: "Safety" followed by "regulat" classified as policy
C9_Witness ==
  /\ arg = RawString(<<"S", "a", "f", "e", "t", "y">> \o Kw_regulat)
  /\ ret = <<"policy">>

\* C10: every node of a run has val >= 1 and val = max(1, 10 - ageHours/6),
\* ageHours the hours from the publication instant to 'now'; a node with no
\* publication instant has val = 1, one published exactly at 'now' has val = 10.
C10_ValFloor ==
  \A i \in 1..Len(nodes) :
    LET n == nodes[i]
    IN  /\ ~n.val.nan
        /\ n.val.den > 0
        /\ n.val.num >= n.val.den
        /\ n.published_at.isNull => n.val.num = n.val.den
        /\ ~n.published_at.isNull =>
             LET ageMs == Now - n.published_at.v[2]
             IN  /\ n.val.den = 6 * 3600000
                 /\ n.val.num = Max(n.val.den, 10 * n.val.den - ageMs)
                 /\ ageMs = 0 => n.val.num = 10 * n.val.den

\* C10 witness: a run that produced a node with no publication instant and a
\* node published at 'now'
C10_Witness ==
  /\ pc = "done" /\ Len(nodes) = 2
  /\ nodes[1].published_at.isNull /\ nodes[1].val.num = nodes[1].val.den
  /\ ~nodes[2].published_at.isNull /\ nodes[2].published_at.v[2] = Now
  /\ nodes[2].val.num = 10 * nodes[2].val.den

\* the string a column value is expected to decode to
ExpectedString(v) ==
  CASE v.t = "string" -> v.s
    [] v.t \in {"null", "undefined"} -> <<>>
    [] v = RawThrowingObject -> <<>>
    [] v = RawNumber(42) -> <<"4", "2">>
    [] v = RawNumber(0) -> <<"0">>
    [] v = RawNaN -> <<"N", "a", "N">>
    [] v = RawBigInt(7) -> <<"7">>
    [] v = RawBoolean(TRUE) -> <<"t", "r", "u", "e">>
    [] v = RawObject(<<"o", "b", "j">>) -> <<"o", "b", "j">>

\* the timestamp column makes an Invalid Date (see C3)
MakesInvalidDate(p) == p.t \in {"number", "bigint"} /\ p.k # "fin"

\* C11: every node produced by decoding has id and url that are non-null
\* strings, whatever those columns hold: a string unchanged, null/undefined as
\* the empty string, any other value string-converted, a failed conversion as
\* the empty string; no value of the id, url or title column makes decoding
\* raise, and a null title decodes to title = null.
C11_IdUrlStrings ==
  ret # <<>> =>
    LET d == ret[1]
    IN  /\ ~MakesInvalidDate(arg.published_ms) => d.ok
        /\ d.ok =>
             /\ d.v.id = ExpectedString(arg.id)
             /\ d.v.url = ExpectedString(arg.url)
             /\ d.v.id \in Seq(STRING) /\ d.v.url \in Seq(STRING)
             /\ arg.title.t \in {"null", "undefined"} => d.v.title.isNull
             /\ ~d.v.title.isNull => d.v.title.v = ExpectedString(arg.title)

\* C11 witness: a row with a null id, a url object whose conversion throws and
\* a null title, decoded into a node
C11_Witness ==
  /\ ret # <<>> /\ ret[1].ok
  /\ arg.id = RawNull /\ arg.url = RawThrowingObject /\ arg.title = RawNull
  /\ ret[1].v.id = <<>> /\ ret[1].v.url = <<>> /\ ret[1].v.title.isNull

\* the engine statements of a run, in the order the claim gives
StatementOrder == <<SetupStmt, TimeZoneStmt, ViewStmt, ProjectionStmt>>

\* the await at which the k-th statement is in flight
AwaitOfStatement == <<"awaitSetup", "awaitTz", "awaitView", "awaitQuery">>

\* C12: the engine statements are issued in the order setup, SET TimeZone,
\* CREATE OR REPLACE VIEW, projection query, each exactly once and each only
\* once the previous one has completed (while a statement is in flight it is
\* the last one issued); a run that reaches the projection query has issued
\* all four, the time zone before the query; and none is issued before the
\* manifest has been fetched and resolved to a non-empty file list.
C12_StatementOrder ==
  /\ Len(stmts) <= Len(StatementOrder)
  /\ \A k \in 1..Len(stmts) : stmts[k] = StatementOrder[k]
  /\ \A k \in 1..Len(StatementOrder) : pc = AwaitOfStatement[k] => Len(stmts) = k
  /\ pc \in {"mount", "awaitFetch", "awaitText", "awaitJson", "awaitBundle",
             "awaitWorkerFetch", "awaitInstantiate", "awaitConnect"} => stmts = <<>>
  /\ queryCount = 1 <=> stmts = StatementOrder
  /\ stmts # <<>> =>
       /\ fetchCount = 1 /\ bootCount = 1
       /\ Responded /\ resp.ok /\ JsonType[1] \in Range(resp.ct)
       /\ files # <<>> /\ Len(files) = Len(resp.body.fv)

\* C12 witness: a run that issued the four statements and ended with nodes
C12_Witness ==
  /\ pc = "done" /\ queryCount = 1 /\ nodes # <<>>
  /\ stmts = <<SetupStmt, TimeZoneStmt, ViewStmt, ProjectionStmt>>

====
